---- MODULE Spec2Model ----
(***************************************************************************)
(* Token-refresh coordination of the dashboard's HTTP clients.             *)
(*                                                                         *)
(*   Spec     the API client frontend/src/api/index.js together with the   *)
(*            Vuex auth module and the browser storage it works on.        *)
(*   SpecReq  the client frontend/src/utils/request.js, whose refresh      *)
(*            goes through the same auth module (and so through the API    *)
(*            client's service for the /auth/refresh call itself).         *)
(*   SpecNav  the router with its beforeEach guard, the login page, the    *)
(*            start-up code of main.js and the store actions they call.    *)
(*   SpecCache the pages of the layout with the fetch actions of the       *)
(*            analytics and repositories modules.                          *)
(*   SpecExt  Spec with a request to the integrations API.                 *)
(*   SpecOut  Spec with the logout of the layout's menu.                   *)
(*   SpecLive Spec when every call on the wire is answered.                *)
(*                                                                         *)
(* One action is one browser task: the arrival of a response together with *)
(* every promise continuation (microtask) it triggers.                     *)
(*                                                                         *)
(* Access tokens are positive integers, refresh tokens negative ones and   *)
(* 0 stands for an absent value (undefined / null / no header).            *)
(***************************************************************************)
EXTENDS Integers, Sequences, FiniteSets, TLC

VARIABLES
    cookies,         \* js-cookie jar: [token, refresh]
    localStorage,    \* localStorage item user_info (0: absent)
    state,           \* Vuex auth state: [token, refreshToken, user, permissions]
    isRefreshing,    \* api/index.js: let isRefreshing
    failedQueue,     \* api/index.js: let failedQueue (request ids, in push order)
    reqIsRefreshing, \* utils/request.js: let isRefreshing
    requests,        \* utils/request.js: let requests (request ids, in push order)
    dialog,          \* utils/request.js: the "login expired" confirm box is open
    req,             \* per request: its config and the status of its promise
    net,             \* calls on the wire, in the order they were sent
    issued,          \* backend: the last access token it issued
    pushed,          \* router.push targets issued by the task that ran last
    event,           \* the task that ran last: the class of the response it handled
                     \* ("2xx", "401", "error"; "norefresh" for a 2xx answer of /auth/login
                     \* that lacks refresh_token), NoResponse for a task that handled none
    route,           \* router.currentRoute: the path of the route the application is on
    apiCalls,        \* SpecNav: calls of the store actions and the login page on the wire
    timer,           \* SpecNav: the 500 ms timer of Login.vue handleLogin is running
    cache,           \* Vuex analytics and repositories state: [commitsData, repositories]
    saved            \* what the last login saved: [token, refresh, user], whether it is
                     \* still intact, and the token a later refresh put in its place

vars == <<cookies, localStorage, state, isRefreshing, failedQueue,
          reqIsRefreshing, requests, dialog, req, net, issued, pushed, event,
          route, apiCalls, timer, cache, saved>>

----------------------------------------------------------------------------
(* Bounds *)

NumReq == 3      \* requests issued by the views
MaxTok == 4      \* the backend issues access tokens 1..MaxTok
MaxSends == 3    \* SpecReq: the backend answers 401 to at most MaxSends - 1 sends of one request

Req == 1..NumReq

----------------------------------------------------------------------------
(* URLs are sequences of path segments; String.prototype.includes is the   *)
(* search for a contiguous run of segments.                                *)

REFRESH_URL == <<"auth", "refresh">>

URLS == { <<"analytics", "commits">>, <<"repositories">> }

includes(url, frag) ==
    \E i \in 1..Len(url) :
        /\ i + Len(frag) - 1 <= Len(url)
        /\ \A k \in 1..Len(frag) : url[i + k - 1] = frag[k]

----------------------------------------------------------------------------
(* Browser storage and the Vuex auth module, as functions of the record    *)
(* [cookies, localStorage, state].                                         *)

Env == [cookies |-> cookies, localStorage |-> localStorage, state |-> state]

SetEnv(e) ==
    /\ cookies' = e.cookies
    /\ localStorage' = e.localStorage
    /\ state' = e.state

getToken(e) == e.cookies.token

setToken(e, token) == [e EXCEPT !.cookies.token = token]

setRefreshToken(e, refreshToken) == [e EXCEPT !.cookies.refresh = refreshToken]

removeToken(e) == [e EXCEPT !.cookies = [token |-> 0, refresh |-> 0]]

clearAuth(e) == [removeToken(e) EXCEPT !.localStorage = 0]

SET_TOKEN(e, token) == [e EXCEPT !.state.token = token]

CLEAR_AUTH(e) ==
    [e EXCEPT !.state = [token |-> 0, refreshToken |-> 0, user |-> 0, permissions |-> {}],
              !.localStorage = 0]

resetToken(e) == removeToken(CLEAR_AUTH(e))

\* actions.refreshToken up to its await: the refresh-token check.
refreshTokenBegin(e) ==
    IF e.state.refreshToken = 0
    THEN [called |-> FALSE, env |-> removeToken(CLEAR_AUTH(removeToken(CLEAR_AUTH(e))))]
    ELSE [called |-> TRUE, env |-> e]

\* (variant: SET_TOKEN without setToken, the cookie keeps the old token)
refreshTokenDone_StoreOnly(e, access_token) == SET_TOKEN(e, access_token)

\* (variant: the refresh token is dropped from the store and from its cookie)
refreshTokenDone_DropsRefresh(e, access_token) ==
    [setToken(SET_TOKEN(e, access_token), access_token)
        EXCEPT !.state.refreshToken = 0, !.cookies.refresh = 0]

\* actions.refreshToken after a 2xx answer carrying access_token.
refreshTokenDone(e, access_token) == setToken(SET_TOKEN(e, access_token), access_token)

\* actions.refreshToken after the call was rejected: the catch block.
refreshTokenFailed(e) == removeToken(CLEAR_AUTH(e))

----------------------------------------------------------------------------
(* Requests *)

Remove(s, i) == [k \in 1..(Len(s) - 1) |-> IF k < i THEN s[k] ELSE s[k + 1]]

NoResponse == "none"

\* url, retry (_retry) and auth (headers.Authorization) are the request config; pc and
\* err are the status of the promise returned to the caller; the rest is history:
\* firstAuth the header of the first send, replayed whether it was re-sent, called
\* whether it made a /auth/refresh call and calledAuth the header of the failed send
\* it made the call for, wraps the number of refresh attempts of utils/request.js
\* whose catch handler waits on it, sends the number of times utils/request.js put
\* it on the wire.
NewReq == [url |-> <<>>, pc |-> "new", retry |-> FALSE, auth |-> 0, err |-> "",
           firstAuth |-> 0, replayed |-> FALSE, called |-> FALSE, calledAuth |-> 0,
           wraps |-> 0, sends |-> 0]

\* A settled request keeps the outcome of its promise only.
Settled(pc, err) == [NewReq EXCEPT !.pc = pc, !.err = err]

IsRefreshCall(c) == c.url = REFRESH_URL

RefreshCalls == { i \in 1..Len(net) : IsRefreshCall(net[i]) }

\* api/index.js request interceptor: the Authorization header the config leaves with.
requestInterceptor(e, url, header) ==
    IF includes(url, REFRESH_URL) THEN header
    ELSE IF getToken(e) # 0 THEN getToken(e) ELSE header

START_LOCATION == "START"

NoCache == [commitsData |-> 0, repositories |-> 0]

NothingSaved == [token |-> 0, refresh |-> 0, user |-> 0, intact |-> FALSE, refreshed |-> 0]

\* The router, the login page and the data modules at rest (Spec and SpecReq leave
\* them alone).
InitNavAtRest ==
    /\ route = START_LOCATION
    /\ apiCalls = {}
    /\ timer = FALSE
    /\ cache = NoCache
    /\ saved = NothingSaved

UnchangedNav == UNCHANGED <<route, apiCalls, timer, cache, saved>>

Init ==
    /\ InitNavAtRest
    /\ cookies \in [token : {0, 1}, refresh : {0, -1}]
    /\ localStorage = 1
    /\ state = [token |-> cookies.token, refreshToken |-> cookies.refresh,
                user |-> localStorage, permissions |-> {}]
    /\ isRefreshing = FALSE
    /\ failedQueue = <<>>
    /\ reqIsRefreshing = FALSE
    /\ requests = <<>>
    /\ dialog = FALSE
    /\ req = [r \in Req |-> NewReq]
    /\ net = <<>>
    /\ issued = 1
    /\ pushed = <<>>
    /\ event = NoResponse

UnchangedReqClient == UNCHANGED <<reqIsRefreshing, requests, dialog>>
UnchangedApiClient == UNCHANGED <<isRefreshing, failedQueue>>

----------------------------------------------------------------------------
(* The API client, frontend/src/api/index.js *)

\* Response interceptor, error handler: 403, 404, 500, any other status, a timeout
\* or a network error (no response: status 0).  The handler shows a message that
\* depends on the status and rejects; the task is recorded as "error".
ERROR_STATUS == {403, 404, 500, 502, 0}

StatusClass(status) ==
    IF status >= 200 /\ status < 300 THEN "2xx"
    ELSE IF status = 401 THEN "401" ELSE "error"

\* A view issues request r: service(config) runs the request interceptor and
\* puts the call on the wire.  Requests are numbered in the order of issue.
Send(r, url) ==
    /\ req[r].pc = "new"
    /\ IF r = 1 THEN TRUE ELSE req[r - 1].pc # "new"
    /\ LET h == requestInterceptor(Env, url, 0) IN
        /\ req' = [req EXCEPT ![r] = [@ EXCEPT !.url = url, !.pc = "flight", !.auth = h,
                                                !.firstAuth = h]]
        /\ net' = Append(net, [id |-> r, url |-> url, auth |-> h])
    /\ pushed' = <<>>
    /\ event' = NoResponse
    /\ UNCHANGED <<cookies, localStorage, state, isRefreshing, failedQueue, issued>>
    /\ UnchangedReqClient
    /\ UnchangedNav

\* Response interceptor, success handler: a 2xx answer resolves the promise.
Respond2xx(i) ==
    /\ i \in 1..Len(net)
    /\ ~IsRefreshCall(net[i])
    /\ req' = [req EXCEPT ![net[i].id] = Settled("resolved", "")]
    /\ net' = Remove(net, i)
    /\ pushed' = <<>>
    /\ event' = StatusClass(200)
    /\ UNCHANGED <<cookies, localStorage, state, isRefreshing, failedQueue, issued>>
    /\ UnchangedReqClient
    /\ UnchangedNav

\* (variant: the 401 of a retried request is rejected without logout)
on401_RetryRejects(url, retry, refreshing) ==
    IF includes(url, REFRESH_URL) THEN "logout"
    ELSE IF includes(url, <<"repositories">>) \/ includes(url, <<"integrations">>) THEN "reject"
    ELSE IF retry THEN "reject"
    ELSE IF refreshing THEN "queue"
    ELSE "refresh"

\* (variant: no test for the URLs of the repositories and integrations APIs)
on401_NoExternalTest(url, retry, refreshing) ==
    IF includes(url, REFRESH_URL) THEN "logout"
    ELSE IF retry THEN "logout"
    ELSE IF refreshing THEN "queue"
    ELSE "refresh"

\* (variant: no isRefreshing test, every first 401 starts a refresh)
on401_NoRefreshingTest(url, retry, refreshing) ==
    IF includes(url, REFRESH_URL) THEN "logout"
    ELSE IF includes(url, <<"repositories">>) \/ includes(url, <<"integrations">>) THEN "reject"
    ELSE IF retry THEN "logout"
    ELSE "refresh"

\* (variant: the isRefreshing test comes before the _retry test)
on401_QueueBeforeRetry(url, retry, refreshing) ==
    IF includes(url, REFRESH_URL) THEN "logout"
    ELSE IF includes(url, <<"repositories">>) \/ includes(url, <<"integrations">>) THEN "reject"
    ELSE IF refreshing THEN "queue"
    ELSE IF retry THEN "logout"
    ELSE "refresh"

\* (variant: the /auth/refresh test comes last)
on401_RefreshUrlLast(url, retry, refreshing) ==
    IF includes(url, <<"repositories">>) \/ includes(url, <<"integrations">>) THEN "reject"
    ELSE IF retry THEN "logout"
    ELSE IF refreshing THEN "queue"
    ELSE IF includes(url, REFRESH_URL) THEN "logout"
    ELSE "refresh"

\* The branch the error handler takes for a 401, by the tests of case 401 in order.
on401(url, retry, refreshing) ==
    IF includes(url, REFRESH_URL) THEN "logout"
    ELSE IF includes(url, <<"repositories">>) \/ includes(url, <<"integrations">>) THEN "reject"
    ELSE IF retry THEN "logout"
    ELSE IF refreshing THEN "queue"
    ELSE "refresh"

\* Response interceptor, error handler, case 401, for a request of a view.
Respond401(i) ==
    /\ i \in 1..Len(net)
    /\ ~IsRefreshCall(net[i])
    /\ LET r == net[i].id
           branch == on401(req[r].url, req[r].retry, isRefreshing)
       IN
        /\ net' = Remove(net, i)
        /\ event' = StatusClass(401)
        /\ CASE branch = "logout" ->
                  /\ SetEnv(clearAuth(Env))
                  /\ pushed' = <<"/login">>
                  /\ req' = [req EXCEPT ![r] = Settled("rejected", "own")]
                  /\ UNCHANGED <<isRefreshing, failedQueue>>
             [] branch = "reject" ->
                  /\ pushed' = <<>>
                  /\ req' = [req EXCEPT ![r] = Settled("rejected", "own")]
                  /\ UNCHANGED <<cookies, localStorage, state, isRefreshing, failedQueue>>
             [] branch = "queue" ->
                  /\ failedQueue' = Append(failedQueue, r)
                  /\ pushed' = <<>>
                  /\ req' = [req EXCEPT ![r] = [@ EXCEPT !.pc = "queued"]]
                  /\ UNCHANGED <<cookies, localStorage, state, isRefreshing>>
             [] branch = "refresh" ->
                  /\ isRefreshing' = TRUE
                  /\ pushed' = <<>>
                  /\ req' = [req EXCEPT ![r] = [@ EXCEPT !.pc = "importing", !.retry = TRUE]]
                  /\ UNCHANGED <<cookies, localStorage, state, failedQueue>>
    /\ UNCHANGED issued
    /\ UnchangedReqClient
    /\ UnchangedNav

\* Response interceptor, error handler, every case but 401.
RespondError(i) ==
    /\ i \in 1..Len(net)
    /\ ~IsRefreshCall(net[i])
    /\ "error" \in {StatusClass(status) : status \in ERROR_STATUS}
    /\ req' = [req EXCEPT ![net[i].id] = Settled("rejected", "own")]
    /\ net' = Remove(net, i)
    /\ pushed' = <<>>
    /\ event' = "error"
    /\ UNCHANGED <<cookies, localStorage, state, isRefreshing, failedQueue, issued>>
    /\ UnchangedReqClient
    /\ UnchangedNav

\* (variant: the queue is emptied without rejecting its promises)
RejectQueue_Dropped(rq, queue) == rq

\* processQueue(error): every queued promise is rejected with the refresh error.
RejectQueue(rq, queue) ==
    [r \in Req |-> IF \E k \in 1..Len(queue) : queue[k] = r
                   THEN Settled("rejected", "refresh")
                   ELSE rq[r]]

\* The catch and finally blocks of the refresh attempt of request r; pushes are
\* the router.push calls made before the catch block was entered.
RefreshCatch(r, e, pushes) ==
    /\ req' = [RejectQueue(req, failedQueue) EXCEPT
                  ![r] = Settled("rejected", "refresh")]
    /\ failedQueue' = <<>>
    /\ SetEnv(clearAuth(e))
    /\ pushed' = pushes \o <<"/login">>
    /\ isRefreshing' = FALSE

\* The call config of the /auth/refresh call made by api/auth.js refreshToken().
RefreshCall(r, e) == [id |-> r, url |-> REFRESH_URL, auth |-> requestInterceptor(e, REFRESH_URL, 0)]

\* (await import('@/store')) has resolved for request r: the refresh-token check,
\* then store.dispatch('auth/refreshToken') up to its call of /auth/refresh.
ImportStore(r) ==
    /\ req[r].pc = "importing"
    /\ event' = NoResponse
    /\ IF state.refreshToken = 0
       THEN /\ RefreshCatch(r, Env, <<>>)
            /\ UNCHANGED net
       ELSE LET b == refreshTokenBegin(Env) IN
            IF b.called
            THEN /\ net' = Append(net, RefreshCall(r, b.env))
                 /\ req' = [req EXCEPT ![r] = [@ EXCEPT !.pc = "refreshing", !.called = TRUE,
                                                          !.calledAuth = req[r].auth]]
                 /\ SetEnv(b.env)
                 /\ pushed' = <<>>
                 /\ UNCHANGED <<isRefreshing, failedQueue>>
            ELSE /\ RefreshCatch(r, b.env, <<>>)
                 /\ UNCHANGED net
    /\ UNCHANGED issued
    /\ UnchangedReqClient
    /\ UnchangedNav

\* The calls put on the wire by replaying the requests of seq, in that order, with
\* the Authorization header set to token before service(originalRequest).
RECURSIVE Replays(_, _, _, _)
Replays(e, rq, seq, token) ==
    IF seq = <<>> THEN <<>>
    ELSE <<[id |-> Head(seq), url |-> rq[Head(seq)].url,
            auth |-> requestInterceptor(e, rq[Head(seq)].url, token)]>>
         \o Replays(e, rq, Tail(seq), token)

Resent(rq, calls) ==
    [r \in Req |-> IF \E k \in 1..Len(calls) : calls[k].id = r
                   THEN LET c == CHOOSE c \in {calls[k] : k \in 1..Len(calls)} : c.id = r
                        IN [rq[r] EXCEPT !.pc = "flight", !.auth = c.auth, !.replayed = TRUE]
                   ELSE rq[r]]

\* (variant: the queue is emptied and no queued promise is resolved)
processQueue_ResolvesNone(queue) == <<>>

\* (variant: the queue is visited from its end)
processQueue_Reversed(queue) == [k \in 1..Len(queue) |-> queue[Len(queue) + 1 - k]]

\* processQueue(null, token): failedQueue.forEach resolves the queued promises in
\* index order.
processQueue(queue) == queue

\* The order in which the replays of one successful refresh reach the wire: the
\* request that started the refresh calls service() before the then-callbacks of
\* the queued promises run.
ReplayOrder(r, queue) == <<r>> \o processQueue(queue)

\* The /auth/refresh call of request r is answered 2xx with a new access token.
RefreshRespond2xx(i) ==
    /\ i \in 1..Len(net)
    /\ IsRefreshCall(net[i])
    /\ issued < MaxTok
    /\ LET r == net[i].id
           e == refreshTokenDone(Env, issued + 1)
           newToken == e.state.token
           calls == Replays(e, req, ReplayOrder(r, failedQueue), newToken)
       IN
        /\ issued' = issued + 1
        /\ SetEnv(e)
        /\ net' = Remove(net, i) \o calls
        /\ req' = Resent(req, calls)
        /\ failedQueue' = <<>>
        /\ isRefreshing' = FALSE
        /\ pushed' = <<>>
        /\ event' = StatusClass(200)
    /\ UnchangedReqClient
    /\ UnchangedNav

\* The /auth/refresh call of request r is answered with an error status: the error
\* handler of the response interceptor runs for the call, then the catch block of
\* actions.refreshToken, then the catch block of the refresh attempt.
RefreshRespondError(i, class) ==
    /\ i \in 1..Len(net)
    /\ IsRefreshCall(net[i])
    /\ class \in {StatusClass(status) : status \in ERROR_STATUS \cup {401}}
    /\ LET r == net[i].id
           branch == IF class = "401" THEN on401(net[i].url, FALSE, isRefreshing) ELSE "reject"
       IN
        /\ event' = class
        /\ CASE branch = "logout" ->
                  /\ net' = Remove(net, i)
                  /\ RefreshCatch(r, refreshTokenFailed(clearAuth(Env)), <<"/login">>)
             [] branch = "reject" ->
                  /\ net' = Remove(net, i)
                  /\ RefreshCatch(r, refreshTokenFailed(Env), <<>>)
             [] branch = "queue" ->
                  \* the promise of the refresh call itself waits in failedQueue
                  /\ net' = Remove(net, i)
                  /\ failedQueue' = Append(failedQueue, 0 - r)
                  /\ pushed' = <<>>
                  /\ UNCHANGED <<cookies, localStorage, state, isRefreshing, req>>
             [] branch = "refresh" ->
                  \* a refresh on behalf of the refresh call
                  /\ net' = Append(Remove(net, i), RefreshCall(r, Env))
                  /\ isRefreshing' = TRUE
                  /\ pushed' = <<>>
                  /\ UNCHANGED <<cookies, localStorage, state, failedQueue, req>>
    /\ UNCHANGED issued
    /\ UnchangedReqClient
    /\ UnchangedNav

Next ==
    \/ \E r \in Req, url \in URLS : Send(r, url)
    \/ \E i \in 1..NumReq : Respond2xx(i)
    \/ \E i \in 1..NumReq : Respond401(i)
    \/ \E i \in 1..NumReq : RespondError(i)
    \/ \E r \in Req : ImportStore(r)
    \/ \E i \in 1..NumReq : RefreshRespond2xx(i)
    \/ \E i \in 1..NumReq, class \in {"401", "error"} : RefreshRespondError(i, class)

Spec == Init /\ [][Next]_vars

LiveReq == 2     \* SpecLive: requests issued by the views

\* The API client when every call on the wire is answered and every pending
\* continuation runs: the browser delivers a response as a task and runs the
\* microtask of a resolved import.  The views are not obliged to issue requests.
Deliver ==
    \/ \E i \in 1..NumReq : Respond2xx(i)
    \/ \E i \in 1..NumReq : Respond401(i)
    \/ \E i \in 1..NumReq : RespondError(i)
    \/ \E r \in Req : ImportStore(r)
    \/ \E i \in 1..NumReq : RefreshRespond2xx(i)
    \/ \E i \in 1..NumReq, class \in {"401", "error"} : RefreshRespondError(i, class)

NextLive ==
    \/ \E r \in 1..LiveReq, url \in URLS : Send(r, url)
    \/ Deliver

SpecLive == Init /\ [][NextLive]_vars /\ WF_vars(Deliver)

\* The API client with a request to the integrations API next to the others.
EXT_URLS == URLS \cup { <<"auth", "integrations">> }

NextExt ==
    \/ \E r \in Req, url \in EXT_URLS : Send(r, url)
    \/ \E i \in 1..NumReq : Respond2xx(i)
    \/ \E i \in 1..NumReq : Respond401(i)
    \/ \E i \in 1..NumReq : RespondError(i)
    \/ \E r \in Req : ImportStore(r)
    \/ \E i \in 1..NumReq : RefreshRespond2xx(i)
    \/ \E i \in 1..NumReq, class \in {"401", "error"} : RefreshRespondError(i, class)

SpecExt == Init /\ [][NextExt]_vars

----------------------------------------------------------------------------
(* The client frontend/src/utils/request.js.  Its refresh is                *)
(* store.dispatch('auth/refreshToken'), whose /auth/refresh call is made by *)
(* api/auth.js through the service of api/index.js.                         *)

REQ_URLS == { <<"analytics", "commits">> }

\* Body codes of a 2xx answer: the success handler rejects every code but 200.
BODY_CODES == {200, 401, 403, 500}

\* utils/request.js request interceptor: the Authorization header the config leaves with.
requestInterceptorReq(e, header) == IF getToken(e) # 0 THEN getToken(e) ELSE header

Times(n, x) == [k \in 1..n |-> x]

RSend(r, url) ==
    /\ req[r].pc = "new"
    /\ IF r = 1 THEN TRUE ELSE req[r - 1].pc # "new"
    /\ LET h == requestInterceptorReq(Env, 0) IN
        /\ req' = [req EXCEPT ![r] = [@ EXCEPT !.url = url, !.pc = "flight", !.auth = h,
                                                !.firstAuth = h, !.sends = 1]]
        /\ net' = Append(net, [id |-> r, url |-> url, auth |-> h])
    /\ pushed' = <<>>
    /\ event' = NoResponse
    /\ UNCHANGED <<cookies, localStorage, state, reqIsRefreshing, requests, dialog, issued>>
    /\ UnchangedApiClient
    /\ UnchangedNav

\* The promise of request r is rejected after the client environment became e and
\* the handler pushed pushes.  Every refresh attempt r started before has its
\* .catch handler on this promise: isRefreshing = false, requests = [], resetToken,
\* router.push('/login').
RReject(r, e, pushes, wraps) ==
    /\ req' = [req EXCEPT ![r] = Settled("rejected", "own")]
    /\ IF wraps > 0
       THEN /\ reqIsRefreshing' = FALSE
            /\ requests' = <<>>
            /\ SetEnv(resetToken(e))
            /\ pushed' = pushes \o Times(wraps, "/login")
       ELSE /\ SetEnv(e)
            /\ pushed' = pushes
            /\ UNCHANGED <<reqIsRefreshing, requests>>

\* Response interceptor, success handler: res.code decides.
RRespond2xx(i, code) ==
    /\ i \in 1..Len(net)
    /\ ~IsRefreshCall(net[i])
    /\ net' = Remove(net, i)
    /\ event' = StatusClass(200)
    /\ IF code = 200
       THEN /\ req' = [req EXCEPT ![net[i].id] = Settled("resolved", "")]
            /\ pushed' = <<>>
            /\ UNCHANGED <<cookies, localStorage, state, reqIsRefreshing, requests, dialog>>
       ELSE /\ RReject(net[i].id, Env, IF code = 403 THEN <<"/403">> ELSE <<>>,
                       req[net[i].id].wraps)
            /\ dialog' = (dialog \/ code = 401)
    /\ UNCHANGED issued
    /\ UnchangedApiClient
    /\ UnchangedNav

\* Response interceptor, error handler, status 401 on a URL other than /auth/refresh.
RRespond401(i) ==
    /\ i \in 1..Len(net)
    /\ ~IsRefreshCall(net[i])
    /\ ~includes(net[i].url, REFRESH_URL)
    /\ req[net[i].id].sends < MaxSends
    /\ LET r == net[i].id IN
        /\ event' = StatusClass(401)
        /\ IF ~reqIsRefreshing
           THEN LET b == refreshTokenBegin(Env) IN
                IF b.called
                THEN /\ reqIsRefreshing' = TRUE
                     /\ net' = Append(Remove(net, i), RefreshCall(r, b.env))
                     /\ req' = [req EXCEPT ![r] = [@ EXCEPT !.pc = "refreshing", !.called = TRUE,
                                                              !.calledAuth = req[r].auth,
                                                              !.wraps = @ + 1]]
                     /\ SetEnv(b.env)
                     /\ pushed' = <<>>
                     /\ UNCHANGED requests
                ELSE /\ net' = Remove(net, i)
                     /\ RReject(r, refreshTokenFailed(b.env), <<>>, req[r].wraps + 1)
           ELSE /\ net' = Remove(net, i)
                /\ requests' = Append(requests, r)
                /\ req' = [req EXCEPT ![r] = [@ EXCEPT !.pc = "queued"]]
                /\ pushed' = <<>>
                /\ UNCHANGED <<cookies, localStorage, state, reqIsRefreshing>>
    /\ UNCHANGED <<issued, dialog>>
    /\ UnchangedApiClient
    /\ UnchangedNav

\* Response interceptor, error handler, the status switch and the no-response cases.
RRespondError(i) ==
    /\ i \in 1..Len(net)
    /\ ~IsRefreshCall(net[i])
    /\ "error" \in {StatusClass(status) : status \in ERROR_STATUS}
    /\ net' = Remove(net, i)
    /\ event' = "error"
    /\ RReject(net[i].id, Env, <<>>, req[net[i].id].wraps)
    /\ UNCHANGED <<issued, dialog>>
    /\ UnchangedApiClient
    /\ UnchangedNav

\* The calls put on the wire by the callbacks of requests and the retry of the
\* request that started the refresh.
RECURSIVE ReplaysReq(_, _, _, _)
ReplaysReq(e, rq, seq, token) ==
    IF seq = <<>> THEN <<>>
    ELSE <<[id |-> Head(seq), url |-> rq[Head(seq)].url,
            auth |-> requestInterceptorReq(e, token)]>>
         \o ReplaysReq(e, rq, Tail(seq), token)

ResentReq(rq, calls) ==
    [r \in Req |-> IF \E k \in 1..Len(calls) : calls[k].id = r
                   THEN LET c == CHOOSE c \in {calls[k] : k \in 1..Len(calls)} : c.id = r
                        IN [rq[r] EXCEPT !.pc = "flight", !.auth = c.auth, !.replayed = TRUE,
                                         !.sends = @ + 1]
                   ELSE rq[r]]

\* The /auth/refresh call made for request r is answered 2xx: the then-callback.
RRefreshRespond2xx(i) ==
    /\ i \in 1..Len(net)
    /\ IsRefreshCall(net[i])
    /\ issued < MaxTok
    /\ LET r == net[i].id
           e == refreshTokenDone(Env, issued + 1)
           newToken == issued + 1
           calls == ReplaysReq(e, req, requests \o <<r>>, newToken)
       IN
        /\ issued' = issued + 1
        /\ SetEnv(e)
        /\ reqIsRefreshing' = FALSE
        /\ requests' = <<>>
        /\ net' = Remove(net, i) \o calls
        /\ req' = ResentReq(req, calls)
        /\ pushed' = <<>>
        /\ event' = StatusClass(200)
    /\ UNCHANGED dialog
    /\ UnchangedApiClient
    /\ UnchangedNav

\* The /auth/refresh call made for request r is answered with an error: the error
\* handler of api/index.js, the catch block of actions.refreshToken, then the
\* .catch handler of the refresh attempt (and of every earlier attempt of r).
RRefreshRespondError(i, class) ==
    /\ i \in 1..Len(net)
    /\ IsRefreshCall(net[i])
    /\ class \in {StatusClass(status) : status \in ERROR_STATUS \cup {401}}
    /\ LET r == net[i].id
           logout == class = "401" /\ on401(net[i].url, FALSE, isRefreshing) = "logout"
       IN
        /\ net' = Remove(net, i)
        /\ event' = class
        /\ RReject(r, refreshTokenFailed(IF logout THEN clearAuth(Env) ELSE Env),
                   IF logout THEN <<"/login">> ELSE <<>>, req[r].wraps)
    /\ UNCHANGED <<issued, dialog>>
    /\ UnchangedApiClient
    /\ UnchangedNav

\* The user confirms the "login expired" box: resetToken, then location.reload()
\* constructs the application anew from the browser storage.
ConfirmDialog ==
    /\ dialog
    /\ LET e == resetToken(Env) IN
        /\ cookies' = e.cookies
        /\ localStorage' = e.localStorage
        /\ state' = [token |-> e.cookies.token, refreshToken |-> e.cookies.refresh,
                     user |-> e.localStorage, permissions |-> {}]
    /\ reqIsRefreshing' = FALSE
    /\ requests' = <<>>
    /\ dialog' = FALSE
    /\ req' = [r \in Req |-> NewReq]
    /\ net' = <<>>
    /\ pushed' = <<>>
    /\ event' = NoResponse
    /\ UNCHANGED issued
    /\ UnchangedApiClient
    /\ UnchangedNav

\* The user dismisses the box.
CancelDialog ==
    /\ dialog
    /\ dialog' = FALSE
    /\ pushed' = <<>>
    /\ event' = NoResponse
    /\ UNCHANGED <<cookies, localStorage, state, reqIsRefreshing, requests, req, net, issued>>
    /\ UnchangedApiClient
    /\ UnchangedNav

NextReq ==
    \/ \E r \in Req, url \in REQ_URLS : RSend(r, url)
    \/ \E i \in 1..NumReq, code \in BODY_CODES : RRespond2xx(i, code)
    \/ \E i \in 1..NumReq : RRespond401(i)
    \/ \E i \in 1..NumReq : RRespondError(i)
    \/ \E i \in 1..NumReq : RRefreshRespond2xx(i)
    \/ \E i \in 1..NumReq, class \in {"401", "error"} : RRefreshRespondError(i, class)
    \/ ConfirmDialog
    \/ CancelDialog

SpecReq == Init /\ [][NextReq]_vars


----------------------------------------------------------------------------
(* The router (frontend/src/router/index.js), the start-up code of main.js, *)
(* the login page and the store actions they call.  The calls go through    *)
(* the service of api/index.js; its handling of an answer is taken to the   *)
(* end within the task of the answer: a 401 that makes the client try a     *)
(* refresh is modelled with the refresh attempt failing (the store holds no *)
(* refresh token, or the /auth/refresh call is rejected).                   *)

MaxCalls == 3    \* calls of the store actions on the wire at the same time

PATHS == {"/login", "/", "/dashboard", "/missing"}

\* Route records: '/' redirects to /dashboard; a path no record matches is taken
\* by the catch-all record NotFound.
Resolve(to) == IF to = "/" THEN "/dashboard" ELSE to

\* to.meta.requiresAuth !== false: the meta of the Login record says false, the
\* children of the layout record inherit true, NotFound says nothing.
requiresAuth(to) == to # "/login"

\* (variant: the guard tests to.meta.requiresAuth === true, which lets NotFound pass)
beforeEach_RequiresAuthTrue(st, to) ==
    IF to = "/dashboard" /\ st.token = 0 THEN "/login"
    ELSE IF to = "/dashboard" /\ st.user = 0 THEN "await"
    ELSE IF to = "/login" /\ st.token # 0 THEN "/"
    ELSE "next"

\* (variant: no test of to.path === '/login')
beforeEach_NoLoginTest(st, to) ==
    IF requiresAuth(to) /\ st.token = 0 THEN "/login"
    ELSE IF requiresAuth(to) /\ st.user = 0 THEN "await"
    ELSE "next"

\* router.beforeEach up to its first await: the argument of next(), "next" for
\* next() and "await" when it dispatches auth/getUserInfo and waits.
beforeEach(st, to) ==
    IF requiresAuth(to) /\ st.token = 0 THEN "/login"
    ELSE IF requiresAuth(to) /\ st.user = 0 THEN "await"
    ELSE IF to = "/login" /\ st.token # 0 THEN "/"
    ELSE "next"

\* A new navigation replaces the pending one: the guards still waiting belong to a
\* cancelled navigation.
Superseded(cs) == { [c EXCEPT !.live = FALSE] : c \in cs }

ApiCall(kind) == [kind |-> kind, to |-> "", live |-> FALSE]

GuardCall(to) == [kind |-> "getUserInfo", to |-> to, live |-> TRUE]

\* n = [route, apiCalls, ok]; ok turns false when two identical calls would be on
\* the wire, which the model leaves out.
Supersede(n) ==
    [n EXCEPT !.apiCalls = Superseded(@),
              !.ok = @ /\ Cardinality(Superseded(n.apiCalls)) = Cardinality(n.apiCalls)]

Call(n, c) == [n EXCEPT !.apiCalls = @ \cup {c}, !.ok = @ /\ c \notin n.apiCalls]

\* router.push(to) with the store state st, for n = [route, apiCalls, ok]: the target
\* becomes the pending location; a push to the current route is a duplicate and
\* runs no guard; otherwise the guard admits the target, redirects, or waits for
\* the user profile.
RECURSIVE push(_, _, _)
push(n, st, to) ==
    LET t == Resolve(to)
        n1 == Supersede(n)
        g == beforeEach(st, t)
    IN  IF t = n.route THEN n1
        ELSE IF g = "next" THEN [n1 EXCEPT !.route = t]
        ELSE IF g = "await" THEN Call(n1, GuardCall(t))
        ELSE push(n1, st, g)

Nav == [route |-> route, apiCalls |-> apiCalls, ok |-> TRUE]

Answered(c) == [route |-> route, apiCalls |-> apiCalls \ {c}, ok |-> TRUE]

SetNav(n) ==
    /\ n.ok
    /\ Cardinality(n.apiCalls) <= MaxCalls
    /\ route' = n.route
    /\ apiCalls' = n.apiCalls

SET_REFRESH_TOKEN(e, refreshToken) == [e EXCEPT !.state.refreshToken = refreshToken]

\* SET_USER also writes the profile to localStorage, unless it is empty.
SET_USER(e, user) ==
    IF user # 0 THEN [e EXCEPT !.state.user = user, !.localStorage = user]
    ELSE [e EXCEPT !.state.user = user]

SET_PERMISSIONS(e, permissions) == [e EXCEPT !.state.permissions = permissions]

\* (variant: the catch block of actions.getUserInfo rethrows without clearing)
getUserInfoFailed_KeepsAuth(e) == e

\* actions.getUserInfo, the catch block.
getUserInfoFailed(e) == removeToken(CLEAR_AUTH(e))

\* actions.getUserInfo after a 2xx answer carrying user and permissions.
getUserInfoDone(e, user) == SET_PERMISSIONS(SET_USER(e, user), {})

\* (variant: the refresh token is committed to the store but not written to its cookie)
loginDone_NoRefreshCookie(e, token, refreshTokenValue, user) ==
    IF refreshTokenValue = 0 THEN e
    ELSE setToken(SET_USER(SET_REFRESH_TOKEN(SET_TOKEN(e, token), refreshTokenValue), user), token)

\* (variant: the refresh_token test comes after the commit of SET_TOKEN)
loginDone_TestAfterCommit(e, token, refreshTokenValue, user) ==
    IF refreshTokenValue = 0 THEN SET_TOKEN(e, token)
    ELSE setRefreshToken(setToken(SET_USER(SET_REFRESH_TOKEN(SET_TOKEN(e, token),
                                                             refreshTokenValue),
                                           user), token),
                         refreshTokenValue)

\* actions.login after a 2xx answer carrying access_token, the user fields and
\* refresh_token (0: none): without a refresh token it throws before it commits
\* anything; else the three commits, setToken and setRefreshToken.
loginDone(e, token, refreshTokenValue, user) ==
    IF refreshTokenValue = 0 THEN e
    ELSE setRefreshToken(setToken(SET_USER(SET_REFRESH_TOKEN(SET_TOKEN(e, token),
                                                             refreshTokenValue),
                                           user), token),
                         refreshTokenValue)

\* (variant: the finally block commits CLEAR_AUTH but leaves the cookies)
logoutDone_KeepsCookies(e) == CLEAR_AUTH(e)

\* actions.logout, the finally block (the router.push is the caller's to place).
logoutDone(e) == removeToken(CLEAR_AUTH(e))

CallUrl(kind) ==
    CASE kind = "login" -> <<"auth", "login">>
      [] kind \in {"getUserInfo", "startup"} -> <<"auth", "user">>
      [] kind = "logout" -> <<"auth", "logout">>
      [] kind = "commits" -> <<"analytics", "commits">>
      [] kind = "repositories" -> <<"repositories">>

\* Does the API client log out on a 401 answer to this call?  (case 401 of the
\* error handler; the call is a first send and no refresh is in flight)
LogsOutOn401(kind) == on401(CallUrl(kind), FALSE, isRefreshing) # "reject"

\* The API client's failed refresh attempt for a 401: with no refresh token in the
\* store the attempt's catch block runs clearAuth(); otherwise the /auth/refresh
\* call is rejected: clearAuth() for its 401, the catch block of
\* actions.refreshToken, then the attempt's catch block.
Unauthorized(e) ==
    IF e.state.refreshToken = 0 THEN clearAuth(e)
    ELSE clearAuth(refreshTokenFailed(clearAuth(e)))

\* The record of the last login (what it saved, and whether a cookie expired or
\* the credentials were cleared since) after a step that cleared from e0 to e1.
Touched(sv, e0, e1) == IF e1 = e0 THEN sv ELSE [sv EXCEPT !.intact = FALSE]

\* The store state module construction reads from the browser storage, then the
\* start-up restore of main.js from the cookies.
RestoredState(c, ls) ==
    LET st0 == [token |-> c.token, refreshToken |-> c.refresh, user |-> ls, permissions |-> {}]
        e0 == [cookies |-> c, localStorage |-> ls, state |-> st0]
        e1 == IF getToken(e0) # 0 THEN SET_TOKEN(e0, getToken(e0)) ELSE e0
        e2 == IF c.refresh # 0 THEN SET_REFRESH_TOKEN(e1, c.refresh) ELSE e1
    IN e2.state

\* The application constructed at the URL to: the calls of the start-up code and
\* of the guard of the initial navigation.
Boot(c, ls, to) ==
    LET st == RestoredState(c, ls)
        n0 == [route |-> START_LOCATION,
               apiCalls |-> IF c.token # 0 /\ st.user = 0 THEN {ApiCall("startup")} ELSE {},
               ok |-> TRUE]
    IN [state |-> st, nav |-> push(n0, st, to)]

InitNav ==
    /\ cookies \in [token : {0, 1}, refresh : {0, -1}]
    /\ localStorage \in {0, 1}
    /\ \E to \in PATHS :
          LET b == Boot(cookies, localStorage, to) IN
            /\ state = b.state
            /\ route = b.nav.route
            /\ apiCalls = b.nav.apiCalls
            /\ pushed = <<to>>
    /\ timer = FALSE
    /\ cache = NoCache
    /\ saved = NothingSaved
    /\ isRefreshing = FALSE
    /\ failedQueue = <<>>
    /\ reqIsRefreshing = FALSE
    /\ requests = <<>>
    /\ dialog = FALSE
    /\ req = [r \in Req |-> NewReq]
    /\ net = <<>>
    /\ issued = 1
    /\ event = "reload"

UnchangedClients ==
    /\ UnchangedApiClient
    /\ UnchangedReqClient
    /\ UNCHANGED <<req, net>>

\* The page is loaded anew at the URL to.
Reload(to) ==
    /\ LET b == Boot(cookies, localStorage, to) IN
        /\ state' = b.state
        /\ SetNav(b.nav)
    /\ timer' = FALSE
    /\ cache' = NoCache
    /\ pushed' = <<to>>
    /\ event' = "reload"
    /\ UNCHANGED <<cookies, localStorage, issued, saved>>
    /\ UnchangedClients

\* A link or a menu entry: router.push(to).
Visit(to) ==
    /\ SetNav(push(Nav, state, to))
    /\ pushed' = <<to>>
    /\ event' = "visit"
    /\ UNCHANGED <<cookies, localStorage, state, issued, timer, cache, saved>>
    /\ UnchangedClients

\* The browser drops the access-token cookie (30 minutes) or the refresh-token
\* cookie (7 days); not within the 500 ms after a login wrote them.
ExpireCookie(name) ==
    /\ ~timer
    /\ IF name = "token" THEN cookies.token # 0 /\ cookies' = [cookies EXCEPT !.token = 0]
                         ELSE cookies.refresh # 0 /\ cookies' = [cookies EXCEPT !.refresh = 0]
    /\ saved' = [saved EXCEPT !.intact = FALSE]
    /\ pushed' = <<>>
    /\ event' = "expire"
    /\ UNCHANGED <<localStorage, state, issued, route, apiCalls, timer, cache>>
    /\ UnchangedClients

\* The tokens of the backend's answers: the client does not look into them, and
\* SpecNav keeps no count of them.  /auth/login answers with LoginToken (and its
\* negative as the refresh token), /auth/refresh with RefreshedToken.
LoginToken == issued + 1

RefreshedToken == issued + 2

\* Answers to a call: 2xx ("ok"; "refreshed": 2xx to the replay after a 401 and a
\* successful refresh), an error other than 401, or 401.
OUTCOMES == {"ok", "refreshed", "error", "401"}

Failed(outcome) == outcome \in {"error", "401"}

OutcomeClass(outcome) == IF outcome \in {"ok", "refreshed"} THEN "2xx" ELSE outcome

\* The environment the response interceptor leaves before the caller continues.
Intercept(outcome, kind, e) ==
    IF outcome = "401" /\ LogsOutOn401(kind) THEN Unauthorized(e)
    ELSE IF outcome = "refreshed" THEN refreshTokenDone(e, RefreshedToken)
    ELSE e

InterceptPushes(outcome, kind, e) ==
    IF outcome = "401" /\ LogsOutOn401(kind)
    THEN IF e.state.refreshToken = 0 THEN <<"/login">> ELSE <<"/login", "/login">>
    ELSE <<>>

\* The router.push('/login') calls of the interceptor.  Their guards run in
\* microtasks of their own: before the caller's catch blocks (early) or after them,
\* when the environment is already eF.
InterceptNav(n, outcome, kind, e, eF, early) ==
    IF outcome = "401" /\ LogsOutOn401(kind)
    THEN LET n1 == push(n, IF early THEN clearAuth(e).state ELSE eF.state, "/login")
         IN IF e.state.refreshToken = 0 THEN n1
            ELSE push(n1, IF early THEN Unauthorized(e).state ELSE eF.state, "/login")
    ELSE n

OutcomeOk(outcome, early) ==
    /\ outcome \in OUTCOMES
    /\ outcome = "refreshed" => state.refreshToken # 0
    /\ outcome # "401" => early

Refreshed(sv, outcome) == IF outcome = "refreshed" THEN [sv EXCEPT !.refreshed = RefreshedToken] ELSE sv

\* The auth/getUserInfo call dispatched by the guard (for the navigation to c.to)
\* or by the start-up code is answered.
UserInfoRespond(c, outcome, user, early) ==
    /\ c \in apiCalls
    /\ c.kind \in {"getUserInfo", "startup"}
    /\ OutcomeOk(outcome, early)
    /\ Failed(outcome) => user = 0
    /\ LET n0 == Answered(c)
           eI == Intercept(outcome, c.kind, Env)
       IN
        IF ~Failed(outcome)
        THEN \* SET_USER, SET_PERMISSIONS; the guard goes on to next()
             /\ SetEnv(getUserInfoDone(eI, user))
             \* (c.to is not /login), which enters c.to unless the navigation was cancelled
             /\ SetNav(IF c.kind = "getUserInfo" /\ c.live
                       THEN [n0 EXCEPT !.route = c.to] ELSE n0)
             /\ pushed' = <<>>
             /\ saved' = Refreshed(saved, outcome)
        ELSE \* the catch block of the action, then the catch block of the caller:
             \* the guard dispatches auth/logout and calls next('/login'), the
             \* start-up code dispatches auth/resetToken
             LET eC == getUserInfoFailed(eI)
                 eF == IF c.kind = "startup" THEN resetToken(eC) ELSE eC
                 n1 == InterceptNav(n0, outcome, c.kind, Env, eF, early)
                 n2 == IF c.kind = "getUserInfo"
                       THEN push(Call(n1, ApiCall("logout")), eF.state, "/login")
                       ELSE n1
             IN /\ SetEnv(eF)
                /\ SetNav(n2)
                /\ pushed' = InterceptPushes(outcome, c.kind, Env)
                                \o (IF c.kind = "getUserInfo" THEN <<"/login">> ELSE <<>>)
                /\ saved' = Touched(saved, Env, eF)
    /\ event' = OutcomeClass(outcome)
    /\ UNCHANGED <<issued, timer, cache>>
    /\ UnchangedClients

\* The call of the auth/logout action that handleLogout dispatched.
MenuCall == [kind |-> "logout", to |-> "/login", live |-> FALSE]

\* The user picks "logout" in the menu of the layout: handleLogout up to its await.
MenuLogout ==
    /\ route = "/dashboard"
    /\ SetNav(Call(Nav, MenuCall))
    /\ pushed' = <<>>
    /\ event' = "menu"
    /\ UNCHANGED <<cookies, localStorage, state, issued, timer, cache, saved>>
    /\ UnchangedClients

\* The auth/logout call is answered, whatever the answer: the finally block of
\* actions.logout, then for the call of the menu handleLogout's own
\* router.push('/login').
LogoutRespond(c, outcome, early) ==
    /\ c \in apiCalls
    /\ c.kind = "logout"
    /\ OutcomeOk(outcome, early)
    /\ LET n0 == Answered(c)
           eF == logoutDone(Intercept(outcome, c.kind, Env))
           n1 == InterceptNav(n0, outcome, c.kind, Env, eF, early)
           n2 == push(n1, eF.state, "/login")
       IN /\ SetEnv(eF)
          /\ SetNav(IF c = MenuCall THEN push(n2, eF.state, "/login") ELSE n2)
          /\ pushed' = InterceptPushes(outcome, c.kind, Env) \o <<"/login">>
                          \o (IF c = MenuCall THEN <<"/login">> ELSE <<>>)
          /\ saved' = Touched(Refreshed(saved, outcome), Env, eF)
    /\ event' = OutcomeClass(outcome)
    /\ UNCHANGED <<issued, timer, cache>>
    /\ UnchangedClients

\* Login.vue handleLogin up to its first await: store.dispatch('auth/login').
LoginSubmit ==
    /\ route = "/login"
    /\ ~timer
    /\ SetNav(Call(Nav, ApiCall("login")))
    /\ pushed' = <<>>
    /\ event' = "submit"
    /\ UNCHANGED <<cookies, localStorage, state, issued, timer, cache, saved>>
    /\ UnchangedClients

\* The /auth/login call is answered.  "ok": the body carries access_token,
\* refresh_token and the user fields; "norefresh": it carries no refresh_token and
\* actions.login throws.  After actions.login resolved, handleLogin starts its timer.
LoginRespond(c, outcome, early) ==
    /\ c \in apiCalls
    /\ c.kind = "login"
    /\ outcome \in {"ok", "norefresh", "error", "401"}
    /\ outcome # "401" => early
    /\ LET n0 == Answered(c)
           token == LoginToken
           eF == IF outcome = "ok" THEN loginDone(Env, token, 0 - token, 1)
                 ELSE IF outcome = "norefresh" THEN loginDone(Env, token, 0, 1)
                 ELSE Intercept(outcome, "login", Env)
       IN /\ SetEnv(eF)
          /\ SetNav(InterceptNav(n0, outcome, "login", Env, eF, early))
          /\ pushed' = InterceptPushes(outcome, "login", Env)
          /\ timer' = (outcome = "ok")
          /\ saved' = IF outcome = "ok"
                      THEN [token |-> token, refresh |-> 0 - token, user |-> 1,
                            intact |-> TRUE, refreshed |-> 0]
                      ELSE Touched(saved, Env, eF)
    /\ event' = IF outcome = "ok" THEN "2xx" ELSE outcome
    /\ UNCHANGED <<issued, cache>>
    /\ UnchangedClients

\* handleLogin after its 500 ms: it throws if the cookie holds no token, else it
\* pushes route.query.redirect || '/dashboard' (no redirect parameter here).
LoginTimer ==
    /\ timer
    /\ timer' = FALSE
    /\ IF getToken(Env) # 0
       THEN /\ SetNav(push(Nav, state, "/dashboard"))
            /\ pushed' = <<"/dashboard">>
       ELSE /\ UNCHANGED <<route, apiCalls>>
            /\ pushed' = <<>>
    /\ event' = "timer"
    /\ UNCHANGED <<cookies, localStorage, state, issued, cache, saved>>
    /\ UnchangedClients

FETCHES == {"commits", "repositories"}

\* analytics/fetchCommitsAnalytics or repositories/fetchRepositories is dispatched
\* on a page of the layout.
Fetch(kind) ==
    /\ route \notin {START_LOCATION, "/login", "/missing"}
    /\ SetNav(Call(Nav, ApiCall(kind)))
    /\ pushed' = <<>>
    /\ event' = "fetch"
    /\ UNCHANGED <<cookies, localStorage, state, issued, timer, cache, saved>>
    /\ UnchangedClients

SET_COMMITS_DATA(ch, data) == [ch EXCEPT !.commitsData = data]

SET_REPOSITORIES(ch, repositories) == [ch EXCEPT !.repositories = repositories]

\* The call of a fetch action is answered: a 2xx answer is committed to the store.
FetchRespond(c, outcome, early) ==
    /\ c \in apiCalls
    /\ c.kind \in FETCHES
    /\ OutcomeOk(outcome, early)
    /\ outcome = "refreshed" => LogsOutOn401(c.kind)    \* no refresh for /repositories
    /\ LET n0 == Answered(c)
           eF == Intercept(outcome, c.kind, Env)
       IN /\ SetEnv(eF)
          /\ SetNav(InterceptNav(n0, outcome, c.kind, Env, eF, early))
          /\ pushed' = InterceptPushes(outcome, c.kind, Env)
          /\ cache' = IF Failed(outcome) THEN cache
                      ELSE IF c.kind = "commits" THEN SET_COMMITS_DATA(cache, 1)
                      ELSE SET_REPOSITORIES(cache, 1)
          /\ saved' = IF Failed(outcome) THEN Touched(saved, Env, eF) ELSE Refreshed(saved, outcome)
    /\ event' = OutcomeClass(outcome)
    /\ UNCHANGED <<issued, timer>>
    /\ UnchangedClients

NextNav ==
    \/ \E to \in PATHS : Reload(to)
    \/ \E to \in PATHS : Visit(to)
    \/ \E name \in {"token", "refresh"} : ExpireCookie(name)
    \/ \E c \in apiCalls, outcome \in OUTCOMES, user \in {0, 1}, early \in BOOLEAN :
          UserInfoRespond(c, outcome, user, early)
    \/ \E c \in apiCalls, outcome \in OUTCOMES, early \in BOOLEAN : LogoutRespond(c, outcome, early)
    \/ LoginSubmit
    \/ \E c \in apiCalls, outcome \in {"ok", "norefresh", "error", "401"}, early \in BOOLEAN :
          LoginRespond(c, outcome, early)
    \/ LoginTimer
    \/ MenuLogout

SpecNav == InitNav /\ [][NextNav]_vars

\* The pages of the layout with the fetch actions of the data modules.
NextCache ==
    \/ \E to \in PATHS : Reload(to)
    \/ \E to \in PATHS : Visit(to)
    \/ \E c \in apiCalls, outcome \in OUTCOMES, user \in {0, 1}, early \in BOOLEAN :
          UserInfoRespond(c, outcome, user, early)
    \/ \E c \in apiCalls, outcome \in OUTCOMES, early \in BOOLEAN : LogoutRespond(c, outcome, early)
    \/ \E kind \in FETCHES : Fetch(kind)
    \/ \E c \in apiCalls, outcome \in OUTCOMES, early \in BOOLEAN : FetchRespond(c, outcome, early)

SpecCache == InitNav /\ [][NextCache]_vars

----------------------------------------------------------------------------
(* The API client with the logout of the layout's menu: requests of the     *)
(* views, the refresh they start, and the auth/logout action dispatched by  *)
(* handleLogout while they are in flight.  The user is logged in and on a   *)
(* page of the layout; the route is moved by the logout only (the pushes of *)
(* the API client are recorded in pushed).  The /auth/logout call is        *)
(* answered 2xx or with an error other than 401.                            *)

InitOut ==
    /\ cookies \in [token : {1}, refresh : {0, -1}]
    /\ localStorage = 1
    /\ state = RestoredState(cookies, localStorage)
    /\ route = "/dashboard"
    /\ apiCalls = {}
    /\ timer = FALSE
    /\ cache = NoCache
    /\ saved = NothingSaved
    /\ isRefreshing = FALSE
    /\ failedQueue = <<>>
    /\ reqIsRefreshing = FALSE
    /\ requests = <<>>
    /\ dialog = FALSE
    /\ req = [r \in Req |-> NewReq]
    /\ net = <<>>
    /\ issued = 1
    /\ pushed = <<>>
    /\ event = NoResponse

NextOut ==
    \/ \E r \in Req, url \in URLS : Send(r, url)
    \/ \E i \in 1..NumReq : Respond2xx(i)
    \/ \E i \in 1..NumReq : Respond401(i)
    \/ \E i \in 1..NumReq : RespondError(i)
    \/ \E r \in Req : ImportStore(r)
    \/ \E i \in 1..NumReq : RefreshRespond2xx(i)
    \/ \E i \in 1..NumReq, class \in {"401", "error"} : RefreshRespondError(i, class)
    \/ MenuLogout
    \/ \E c \in apiCalls, outcome \in {"ok", "error"} : LogoutRespond(c, outcome, TRUE)

SpecOut == InitOut /\ [][NextOut]_vars

----------------------------------------------------------------------------
(* Vocabulary of the properties *)

Plain(s) == SelectSeq(s, LAMBDA c : ~IsRefreshCall(c))

OnWire(s, r) == \E k \in 1..Len(s) : s[k].id = r /\ ~IsRefreshCall(s[k])

Pos(s, r) == CHOOSE k \in 1..Len(s) : s[k].id = r /\ ~IsRefreshCall(s[k])

CallOf(s, r) == s[Pos(s, r)]

InQueue(q, r) == \E k \in 1..Len(q) : q[k] = r

Refreshers == { r \in Req : req[r].pc \in {"importing", "refreshing"} }

\* Steps
ResentNow == { r \in Req : req[r].pc # "new" /\ ~OnWire(net, r) /\ OnWire(net', r) }

Answered401 == { r \in Req : event' = "401" /\ OnWire(net, r) /\ ~OnWire(net', r) }

RefreshAnswered401 == event' = "401" /\ RefreshCalls # {} /\ Plain(net') = Plain(net)

RefreshSucceeds == \E r \in Req : req[r].pc = "refreshing" /\ req'[r].pc = "flight"

RefreshFails == \E r \in Refreshers : req'[r].pc = "rejected"

CredentialsCleared(c, ls, st) ==
    /\ c.token = 0 /\ c.refresh = 0
    /\ ls = 0
    /\ st.token = 0 /\ st.refreshToken = 0 /\ st.user = 0

RedirectIssued(p) == \E k \in 1..Len(p) : p[k] = "/login"

----------------------------------------------------------------------------
(* Properties of the API client, checked under Spec *)

\* C1: at every moment at most one /auth/refresh call is on the wire and at most one
\* request is in its refresh attempt, and a 401 handled while isRefreshing is true
\* starts no refresh: it puts no /auth/refresh call on the wire and no request
\* enters a refresh attempt.
C1_SingleFlight ==
    /\ [](Cardinality(RefreshCalls) <= 1 /\ Cardinality(Refreshers) <= 1)
    /\ [][(isRefreshing /\ event' = "401") =>
             /\ \A k \in 1..Len(net') : IsRefreshCall(net'[k]) =>
                    \E j \in 1..Len(net) : net[j] = net'[k]
             /\ \A r \in Req : req'[r].pc \in {"importing", "refreshing"} => r \in Refreshers]_vars

\* a refresh call is on the wire and a 401 that arrived meanwhile waits in the queue
C1_Witness == isRefreshing /\ RefreshCalls # {} /\ Len(failedQueue) >= 1

\* C2 as stated: every request whose 401 arrives while a refresh call is on the wire
\* is buffered, and a buffered request is re-sent only by the successful resolution
\* of that call.
C2_Original ==
    [][/\ \A r \in Answered401 : RefreshCalls # {} => req'[r].pc = "queued"
       /\ \A r \in ResentNow : req[r].pc = "queued" => RefreshSucceeds]_vars

\* C2 as amended: a request whose 401 arrives while a refresh call is on the wire is
\* buffered unless its URL contains /repositories or /integrations or it was already
\* retried, and then it is rejected; in no case is it put on the wire by that step,
\* and a buffered request is re-sent only by the step in which the refresh call is
\* answered 2xx and the store takes the new token.
C2_BufferedUntilRefreshed ==
    [][/\ \A r \in Answered401 : RefreshCalls # {} =>
              /\ ~OnWire(net', r)
              /\ IF \/ includes(req[r].url, <<"repositories">>)
                    \/ includes(req[r].url, <<"integrations">>)
                    \/ req[r].retry
                 THEN req'[r].pc = "rejected" /\ ~InQueue(failedQueue', r)
                 ELSE req'[r].pc = "queued" /\ InQueue(failedQueue', r)
       /\ \A r \in ResentNow : req[r].pc = "queued" =>
              /\ RefreshSucceeds
              /\ event' = "2xx"
              /\ RefreshCalls # {} /\ RefreshCalls' = {}
              /\ issued' = issued + 1 /\ state'.token = issued']_vars

\* a buffered request was re-sent by a successful refresh
C2_Witness ==
    /\ event = "2xx"
    /\ \E r \in Req : req[r].pc = "flight" /\ req[r].replayed /\ ~req[r].retry
                      /\ req[r].auth = issued /\ issued > 1

\* C3: the requests buffered during one refresh reach the wire, when the refresh
\* resolves, in the order in which they were buffered.
C3_ReplayInArrivalOrder ==
    [][RefreshSucceeds =>
          \A j, k \in 1..Len(failedQueue) :
              /\ failedQueue[j] \in ResentNow
              /\ j < k => Pos(net', failedQueue[j]) < Pos(net', failedQueue[k])]_vars

\* two requests buffered during the same refresh have just been replayed
C3_Witness ==
    /\ event = "2xx"
    /\ Len(net) >= 3
    /\ LET a == net[Len(net) - 2]
           b == net[Len(net) - 1]
           c == net[Len(net)]
       IN /\ ~IsRefreshCall(a) /\ ~IsRefreshCall(b) /\ ~IsRefreshCall(c)
          /\ req[a.id].retry /\ req[a.id].replayed
          /\ ~req[b.id].retry /\ req[b.id].replayed
          /\ ~req[c.id].retry /\ req[c.id].replayed
          /\ a.auth = issued /\ b.auth = issued /\ c.auth = issued

\* C4: when the refresh fails (the call is rejected, or the store holds no refresh
\* token), every request in failedQueue is rejected with the refresh error, none is
\* put on the wire, and failedQueue is left empty.
C4_QueueRejectedOnFailure ==
    [][RefreshFails =>
          /\ failedQueue' = <<>>
          /\ \A k \in 1..Len(failedQueue) :
                 /\ req'[failedQueue[k]].pc = "rejected"
                 /\ req'[failedQueue[k]].err = "refresh"
                 /\ ~OnWire(net', failedQueue[k])
          /\ ResentNow = {}]_vars

\* a failed refresh has rejected the request that started it and a buffered one
C4_Witness ==
    /\ ~isRefreshing /\ failedQueue = <<>>
    /\ RedirectIssued(pushed)
    /\ \E r1, r2 \in Req : r1 # r2 /\ req[r1].pc = "rejected" /\ req[r1].err = "refresh"
                                   /\ req[r2].pc = "rejected" /\ req[r2].err = "refresh"

\* C6 as stated: every failed refresh leaves both cookies, the local-storage profile
\* and the Vuex token, refreshToken and user empty, and pushes /login.
C6_Claim ==
    [][RefreshFails => /\ CredentialsCleared(cookies', localStorage', state')
                       /\ RedirectIssued(pushed')]_vars

\* C7 as stated: two requests first sent with the same access token never both make
\* a /auth/refresh call for the 401 of that send.
C7_Claim ==
    \A r1, r2 \in Req :
        ( /\ r1 # r2
          /\ req[r1].called /\ req[r2].called
          /\ req[r1].firstAuth # 0
          /\ req[r1].calledAuth = req[r1].firstAuth
          /\ req[r2].calledAuth = req[r2].firstAuth )
        => req[r1].firstAuth # req[r2].firstAuth

\* C8: every request put on the wire again by a successful refresh carries the
\* access token that refresh returned (the one the store now holds), which is not
\* the token of its first send.
C8_ReplayCarriesNewToken ==
    [][RefreshSucceeds =>
          /\ issued' = issued + 1
          /\ state'.token = issued'
          /\ \A r \in Req : (req[r].pc \in {"refreshing", "queued"}) => r \in ResentNow
          /\ \A r \in ResentNow :
                 /\ CallOf(net', r).auth = issued'
                 /\ req'[r].auth = issued'
                 /\ CallOf(net', r).auth # req[r].firstAuth]_vars

\* the request that started a refresh and a buffered one are on the wire with the new token
C8_Witness ==
    /\ event = "2xx"
    /\ issued > 1
    /\ \E r1, r2 \in Req :
          /\ req[r1].pc = "flight" /\ req[r1].replayed /\ req[r1].retry
          /\ req[r2].pc = "flight" /\ req[r2].replayed /\ ~req[r2].retry
          /\ OnWire(net, r1) /\ CallOf(net, r1).auth = issued
          /\ OnWire(net, r2) /\ CallOf(net, r2).auth = issued
          /\ req[r1].firstAuth = 1 /\ req[r2].firstAuth = 1

\* C9: the /auth/refresh call is never buffered, and a 401 answer to it puts no
\* /auth/refresh call on the wire and starts no refresh attempt; it empties both
\* cookies, the local-storage profile and the store, pushes /login and rejects the
\* request on whose behalf the call was made.
C9_RefreshCall401 ==
    /\ [](\A k \in 1..Len(failedQueue) : failedQueue[k] \in Req)
    /\ [][RefreshAnswered401 =>
             /\ RefreshCalls' = {}
             /\ Refreshers' = {}
             /\ failedQueue' = <<>>
             /\ CredentialsCleared(cookies', localStorage', state')
             /\ RedirectIssued(pushed')
             /\ \A i \in RefreshCalls : req'[net[i].id].pc = "rejected"]_vars

\* the /auth/refresh call was answered 401 while isRefreshing was true
C9_Witness ==
    /\ event = "401"
    /\ pushed = <<"/login", "/login">>
    /\ ~isRefreshing
    /\ \E r \in Req : req[r].pc = "rejected" /\ req[r].err = "refresh"

\* C10 as stated: no request is put on the wire again once it was replayed, and a
\* replayed request answered 401 ends in logout.
C10_Claim ==
    [][/\ \A r \in ResentNow : ~req[r].replayed
       /\ \A r \in Answered401 : req[r].replayed =>
              /\ req'[r].pc = "rejected"
              /\ cookies'.token = 0 /\ cookies'.refresh = 0
              /\ RedirectIssued(pushed')]_vars

\* Steps of a 401: request r starts a refresh, joins the one in flight, or the
\* handler logs out with clearAuth() and router.push('/login').
StartsRefresh(r) == ~isRefreshing /\ isRefreshing' /\ req'[r].pc = "importing"

JoinsRefresh(r) == isRefreshing /\ isRefreshing' /\ req'[r].pc = "queued" /\ InQueue(failedQueue', r)

LogsOut ==
    /\ cookies'.token = 0 /\ cookies'.refresh = 0
    /\ localStorage' = 0
    /\ RedirectIssued(pushed')

NoNewRefreshCall == \A k \in RefreshCalls' : \E j \in RefreshCalls : net[j] = net'[k]

ExternalApiUrl(url) == includes(url, <<"repositories">>) \/ includes(url, <<"integrations">>)

C12_Claim ==
    [][(isRefreshing /\ isRefreshing') =>
          \A k \in 1..Len(net') : ~IsRefreshCall(net'[k]) =>
              \E j \in 1..Len(net) : net[j] = net'[k]]_vars

\* C16 as stated: every /auth/refresh call on the wire carries the stored refresh
\* token in its Authorization header.
C16_Claim ==
    \A i \in RefreshCalls : net[i].auth # 0 /\ net[i].auth = cookies.refresh

\* C22: a successful refreshToken action sets the store token and the access-token
\* cookie to the access_token of the answer and changes nothing else: the refresh
\* token of the store, the refresh-token cookie, the user and the permissions of
\* the store and the cached profile are as before.
C22_Claim ==
    [][RefreshSucceeds
       => /\ state'.token = issued' /\ cookies'.token = issued'
          /\ issued' = issued + 1
          /\ state'.refreshToken = state.refreshToken
          /\ cookies'.refresh = cookies.refresh
          /\ state'.user = state.user
          /\ state'.permissions = state.permissions
          /\ localStorage' = localStorage]_vars

\* C22 witness: a refresh has just succeeded; store and cookie hold the new access
\* token next to the refresh token and the profile.
C22_Witness ==
    /\ event = "2xx"
    /\ issued > 1
    /\ \E r \in Req : req[r].pc = "flight" /\ req[r].retry /\ req[r].replayed
    /\ state.token = issued /\ cookies.token = issued
    /\ state.refreshToken # 0 /\ cookies.refresh = state.refreshToken
    /\ state.user # 0 /\ localStorage # 0

\* C25 as stated: after a step in which the API client or the auth store clears
\* the credentials and redirects to /login, the store token is empty exactly when
\* the access-token cookie is absent, the store refresh token exactly when the
\* refresh-token cookie is absent, and the guard admits the navigation to /login.
C25_Claim ==
    [][RedirectIssued(pushed')
       => /\ state'.token = 0 <=> cookies'.token = 0
          /\ state'.refreshToken = 0 <=> cookies'.refresh = 0
          /\ beforeEach(state', "/login") = "next"]_vars

----------------------------------------------------------------------------
(* Properties of the API client checked under SpecLive *)

IsSettled(r) == req[r].pc \in {"resolved", "rejected"}

\* C27: when every call on the wire is answered, every issued request is
\* eventually resolved or rejected, no request stays in failedQueue forever and
\* isRefreshing returns to false.
C27_Claim ==
    /\ \A r \in Req : (req[r].pc # "new") ~> IsSettled(r)
    /\ \A r \in Req : InQueue(failedQueue, r) ~> ~InQueue(failedQueue, r)
    /\ isRefreshing ~> ~isRefreshing

\* C27 witness: the requests were issued and are settled after a refresh that
\* succeeded; nothing is on the wire, nothing is buffered and no refresh runs.
C27_Witness ==
    /\ \A r \in 1..LiveReq : IsSettled(r)
    /\ \E r \in Req : req[r].pc = "rejected" /\ req[r].err = "refresh"
    /\ issued > 1
    /\ net = <<>>
    /\ failedQueue = <<>>
    /\ ~isRefreshing

----------------------------------------------------------------------------
(* Properties of the API client checked under SpecExt *)

\* C24: a 401 answer to a request whose URL contains /repositories or
\* /integrations is rejected to the caller and changes nothing else, whatever the
\* value of isRefreshing: no refresh is started, the request is not buffered, no
\* cookie, cached profile or store field is cleared and no redirect is issued.
C24_Claim ==
    [][\A r \in Answered401 :
          ExternalApiUrl(req[r].url)
          => /\ req'[r].pc = "rejected"
             /\ NoNewRefreshCall
             /\ UNCHANGED <<isRefreshing, failedQueue>>
             /\ UNCHANGED <<cookies, localStorage, state>>
             /\ pushed' = <<>>
             /\ \A q \in Req \ {r} : req'[q] = req[q]]_vars

\* C24 witness: a request to the repositories or integrations API was rejected by
\* its 401 while a refresh was in flight, and the refresh and the session are
\* still there.
C24_Witness ==
    /\ event = "401"
    /\ isRefreshing
    /\ RefreshCalls # {}
    /\ \E r \in Req : req[r].pc = "rejected" /\ req[r].err = "own"
    /\ \A r \in Req : req[r].pc \in {"rejected", "refreshing"}
    /\ state.token # 0 /\ cookies.token # 0 /\ localStorage # 0
    /\ pushed = <<>>

----------------------------------------------------------------------------
(* Properties of the client utils/request.js, checked under SpecReq *)

\* C5 as stated: when the refresh fails, the promise of every request waiting in
\* requests is rejected.
C5_Claim ==
    [][RefreshFails =>
          \A k \in 1..Len(requests) : req'[requests[k]].pc = "rejected"]_vars

AnsweredError == { r \in Req : event' = "error" /\ OnWire(net, r) /\ ~OnWire(net', r) }

\* C13 as stated: an error answer (403, 404, 5xx, timeout, network error) to a
\* request rejects it and changes nothing else: no refresh call, isRefreshing and
\* the waiting requests unchanged, cookies, cached profile and store unchanged, no
\* redirect to /login.
C13_Claim ==
    [][\A r \in AnsweredError :
          /\ req'[r].pc = "rejected"
          /\ NoNewRefreshCall
          /\ UNCHANGED <<cookies, localStorage, state>>
          /\ UNCHANGED <<isRefreshing, failedQueue, reqIsRefreshing, requests>>
          /\ ~RedirectIssued(pushed')]_vars

----------------------------------------------------------------------------
(* Properties of the router and the login page, checked under SpecNav *)

\* C14 as stated: when the timer of handleLogin fires after a successful login, the
\* application ends on /dashboard.
C14_Claim == [][event' = "timer" => route' = "/dashboard"]_vars

Navigates(to) ==
    /\ event' \in {"reload", "visit", "timer"}
    /\ pushed' = <<to>>
    /\ Resolve(to) # (IF event' = "reload" THEN START_LOCATION ELSE route)

\* C18: with no access token in the store, a navigation to a route other than
\* /login (a child of the layout or the catch-all route) ends on /login; the target
\* is not entered and no guard is left waiting to enter it.
C18_Claim ==
    [][\A to \in PATHS :
          (/\ Navigates(to)
           /\ Resolve(to) # "/login"
           /\ (IF event' = "reload" THEN state' ELSE state).token = 0)
          => /\ route' = "/login"
             /\ \A c \in apiCalls' : ~c.live]_vars

\* C18 witness: a link to a path no route record matches was followed with no
\* token in the store, and the application is on /login.
C18_Witness ==
    /\ event = "visit"
    /\ pushed = <<"/missing">>
    /\ state.token = 0
    /\ route = "/login"

\* The auth/getUserInfo call c of the guard is answered with a failure.
GuardCallFails(c) ==
    /\ c.kind = "getUserInfo"
    /\ \E outcome \in {"error", "401"}, early \in BOOLEAN : UserInfoRespond(c, outcome, 0, early)

\* C19: when the getUserInfo call the guard dispatched for a navigation fails, the
\* application ends on /login and not on the protected target, auth/logout is
\* dispatched, and the store token, refresh token and user and both token cookies
\* are empty.
C19_Claim ==
    [][\A c \in apiCalls :
          GuardCallFails(c)
          => /\ route' = "/login"
             /\ route' # c.to
             /\ ApiCall("logout") \in apiCalls'
             /\ state'.token = 0 /\ state'.refreshToken = 0 /\ state'.user = 0
             /\ cookies'.token = 0 /\ cookies'.refresh = 0]_vars

\* C19 witness: the guard's call was answered with an error other than 401; the
\* application is on /login with the logout call on the wire and nothing left in
\* the store and the cookies.
C19_Witness ==
    /\ event = "error"
    /\ pushed = <<"/login">>
    /\ ApiCall("logout") \in apiCalls
    /\ route = "/login"
    /\ state.token = 0 /\ state.refreshToken = 0 /\ state.user = 0
    /\ cookies.token = 0 /\ cookies.refresh = 0

\* C20: with an access token in the store, a navigation to /login is redirected
\* to '/' (which the route records resolve to /dashboard): the login page is not
\* entered, and the application is on /dashboard or its guard waits for the user
\* profile before entering /dashboard.
C20_Claim ==
    [][(/\ Navigates("/login")
        /\ (IF event' = "reload" THEN state' ELSE state).token # 0)
       => /\ route' # "/login"
          /\ \/ route' = Resolve("/")
             \/ GuardCall(Resolve("/")) \in apiCalls']_vars

\* C20 witness: the page was loaded at /login with the token cookie and the cached
\* profile present, and the application is on /dashboard.
C20_Witness ==
    /\ event = "reload"
    /\ pushed = <<"/login">>
    /\ state.token # 0
    /\ state.user # 0
    /\ route = "/dashboard"

\* C21: when the answer of /auth/login lacks refresh_token, the login action throws
\* (handleLogin does not go on to its timer and the application stays where it is)
\* and store, cookies and cached profile are as they were before the answer.
C21_Claim ==
    [][event' = "norefresh"
       => /\ UNCHANGED <<cookies, localStorage, state>>
          /\ ~timer'
          /\ route' = route]_vars

\* C21 witness: a login answer without refresh_token was handled on the login page
\* and the store holds no token.
C21_Witness ==
    /\ event = "norefresh"
    /\ route = "/login"
    /\ ~timer
    /\ state.token = 0 /\ state.refreshToken = 0
    /\ cookies.token = 0 /\ cookies.refresh = 0

\* The auth/logout action that made the call c completes: its call is answered.
LogoutCompletes(c) ==
    /\ c.kind = "logout"
    /\ \E outcome \in OUTCOMES, early \in BOOLEAN : LogoutRespond(c, outcome, early)

\* C23: when the logout action completes, whatever the answer to /auth/logout, the
\* store token, refresh token, user and permissions are empty, both token cookies
\* and the cached profile are removed, and a navigation to /login was issued.
C23_Claim ==
    [][\A c \in apiCalls :
          LogoutCompletes(c)
          => /\ CredentialsCleared(cookies', localStorage', state')
             /\ state'.permissions = {}
             /\ RedirectIssued(pushed')]_vars

\* C23 witness: the logout picked in the menu was answered with an error; the
\* action and handleLogout each pushed /login and nothing is left of the session.
C23_Witness ==
    /\ event = "error"
    /\ pushed = <<"/login", "/login">>
    /\ CredentialsCleared(cookies, localStorage, state)
    /\ route = "/login"

----------------------------------------------------------------------------
(* Properties of the data modules of the store, checked under SpecCache *)

\* C17 as stated: when the user navigates from one route to another, the store no
\* longer holds the analytics results and the repository list cached before.
C17_Claim == [][(event' = "visit" /\ route' # route) => cache' = NoCache]_vars

----------------------------------------------------------------------------
(* Properties of the logout next to the API client, checked under SpecOut *)

\* C26 as stated: once the logout action has completed (the application is on
\* /login; nobody logs in again here), the store token and the access-token cookie
\* stay empty, also when a /auth/refresh call sent before the logout is answered
\* after it.
C26_Claim == [][route = "/login" => (state'.token = 0 /\ cookies'.token = 0)]_vars

====
